---- MODULE Spec2Model ----
(***************************************************************************)
(* Spritify (src/spritify.py): the render post-processing handlers         *)
(* spritify and gifify, the two operators that wrap them, and the part of  *)
(* the file system and of the environment they read and write.             *)
(*                                                                         *)
(* Paths.  scene.render.filepath names the render output directory (the    *)
(* Blender default "/tmp/"), scene.spritesheet.filepath names a PNG file   *)
(* outside of it.  A frame file "<n><view>.png" is the record              *)
(* [n |-> n, view |-> view]; a sprite sheet file is the record             *)
(* [index |-> i, suffix |-> s]; a binary is the pair <<directory, name>>.  *)
(***************************************************************************)
EXTENDS Integers, Sequences, FiniteSets, TLC

\* ------------------------------------------------------------------ bounds
MaxFrames == 3     \* frames per view written by one render
MaxFiles == 3      \* largest "File count" setting
NegFiles == 1      \* the "File count" setting goes down to -NegFiles
MaxRuns == 2       \* handler and operator invocations in one behaviour

VARIABLES
    \* scene settings (SpriteSheetProperties and scene.render)
    files, auto_sprite, auto_gif, support_multiview, use_multiview, views,
    \* environment
    osName, registry, binFiles,
    \* file system
    outFrames, scratchDir, scratchFrames, sheets, gifFile,
    \* control: position, the caller's frame and the arguments of the handler
    pc, handler, caller, toggle, sceneArg, operatorArg,
    \* locals of spritify
    suffixes, si, images, per_file, offset, index, destination,
    \* observations: subprocess.call invocations, handler outcome,
    \* operator.report calls, the operator's own outcome
    calls, outcome, reports, opResult,
    \* history: the frames of the output directory at the start of the run,
    \* those at the start of any gifify run, the number of runs
    startFrames, everFrames, runs

settings == <<files, auto_sprite, auto_gif, support_multiview, use_multiview,
              views>>
env == <<osName, registry, binFiles>>
fsys == <<outFrames, scratchDir, scratchFrames, sheets, gifFile>>
ctl == <<pc, handler, caller, toggle, sceneArg, operatorArg>>
locals == <<suffixes, si, images, per_file, offset, index, destination>>
obs == <<calls, outcome, reports, opResult>>
hist == <<startFrames, everFrames, runs>>
vars == <<settings, env, fsys, ctl, locals, obs, hist>>

\* ------------------------------------------------------------------ values
None == "None"
NoIndex == 0 - 1         \* a sheet name without the "-%d-" part
ViewNames == <<"", "_L", "_R">>
imagemagick_path == "cfg"
RegistryDir == "reg"
mixed_files_path == "out"
convert_tmp_dir == <<mixed_files_path, "spritify">>
filepath == [index |-> NoIndex, suffix |-> ""]
gif_destination == [index |-> NoIndex, suffix |-> "gif"]
NoDestination == [index |-> NoIndex, suffix |-> None]

AttributeError == "AttributeError"
ZeroDivisionError == "ZeroDivisionError"
TypeError == "TypeError"
NameError == "NameError"
PermissionError == "PermissionError"
ValueError == "ValueError: The offset cannot be less than 1."
NoFramesFound == "FileNotFoundError: There are 0 images"
ToolNotFound == "FileNotFoundError: The executable does not exist."
NoPngFiles == "FileNotFoundError: There are no PNG files."
TmpDirMissing == "FileNotFoundError: convert_tmp_dir does not exist"

NoOutcome == [kind |-> "none", val |-> None]
Return(v) == [kind |-> "return", val |-> v]
Raise(e) == [kind |-> "raise", val |-> e]

\* ----------------------------------------------------------------- helpers
Min(a, b) == IF a < b THEN a ELSE b

RECURSIVE Flatten(_)
Flatten(ss) == IF ss = <<>> THEN <<>> ELSE Head(ss) \o Flatten(Tail(ss))

ViewRank(v) == CHOOSE i \in 1..Len(ViewNames) : ViewNames[i] = v

\* file names compare as "<n><view>.png" strings do
NameLess(f, g) ==
    \/ f.n < g.n
    \/ f.n = g.n /\ ViewRank(f.view) < ViewRank(g.view)

RECURSIVE sorted(_)
sorted(S) ==
    IF S = {} THEN <<>>
    ELSE LET m == CHOOSE f \in S : \A g \in S \ {f} : NameLess(f, g)
         IN <<m>> \o sorted(S \ {m})

\* filename.endswith("%s.png" % suffix)
endswith(f, suffix) == suffix = "" \/ f.view = suffix

SelectSeq2(s, suffix) == SelectSeq(s, LAMBDA f : endswith(f, suffix))

\* os.walk(render_dir): the directory's own files first, then the files of
\* its subdirectory "spritify", each list sorted
walk_images(suffix) ==
    SelectSeq2(sorted(outFrames), suffix)
        \o SelectSeq2(IF scratchDir THEN sorted(scratchFrames) ELSE <<>>, suffix)

\* math.ceil(n / f), f # 0
ceil_div(n, f) ==
    IF f > 0 THEN (n + f - 1) \div f ELSE -(n \div (-f))

\* a per_file that rounds down
PerFile_floor(n, f) == IF f > 0 THEN n \div f ELSE -((n + (-f) - 1) \div (-f))

\* line 196: per_file
PerFile(n, f) == ceil_div(n, f)

\* a slice that stops one frame early
Slice_short(imgs, off, per) ==
    SubSeq(imgs, off + 1, Min(off + per - 1, Len(imgs)))

\* line 215: images[offset:offset+per_file] (offset >= 0, per_file >= 1)
Slice(imgs, off, per) == SubSeq(imgs, off + 1, Min(off + per, Len(imgs)))

\* an offset that steps over one frame more
NextOffset_skip(off, per) == off + per + 1

\* line 285: offset += per_file
NextOffset(off, per) == off + per

\* the output file of batch idx of a suffix
SheetName(idx, suffix) ==
    IF files > 1 THEN [index |-> idx, suffix |-> suffix]
    ELSE [index |-> NoIndex, suffix |-> suffix]

find_bin_path_windows == registry

\* spritify's bin_path: the configured directory, or on Windows whatever
\* the registry lookup returns
montage_bin_path ==
    IF osName = "nt" THEN find_bin_path_windows ELSE imagemagick_path

\* gifify's converter_path: "<imagemagick_path>/convert", or the registry's
\* directory joined with "convert" on Windows when the lookup gives one
converter_path ==
    IF osName = "nt" /\ find_bin_path_windows # None
    THEN <<find_bin_path_windows, "convert">>
    ELSE <<imagemagick_path, "convert">>

\* argv[0] of gifify's subprocess.call
gifify_program == convert_tmp_dir

isfile(path) == path \in binFiles

\* subprocess.call(argv): the program runs when argv[0] is an executable
\* file; exec of a directory fails with EACCES
Exec(program) == IF isfile(program) THEN "started" ELSE PermissionError

\* the frames one render writes: one file per frame, or one per frame and
\* view when the scene renders views (views_format is 'MULTIVIEW' then)
RenderedFrames(n) ==
    IF use_multiview
    THEN {[n |-> k, view |-> views[i]] : k \in 1..n, i \in 1..Len(views)}
    ELSE {[n |-> k, view |-> ""] : k \in 1..n}

\* -------------------------------------------------------------------- Init
\* scene.render.views holds the views "left" and "right" (the host keeps at
\* least one view in the list); use_multiview and support_multiview vary
ViewConfigs ==
    { [support |-> TRUE, use |-> FALSE, views |-> <<"_L", "_R">>],
      [support |-> FALSE, use |-> TRUE, views |-> <<"_L", "_R">>],
      [support |-> TRUE, use |-> TRUE, views |-> <<"_L", "_R">>] }

Installed(dir) == {<<dir, "montage">>, <<dir, "convert">>}

EnvConfigs ==
    { [os |-> "posix", reg |-> None, bins |-> {}],
      [os |-> "posix", reg |-> None, bins |-> Installed(imagemagick_path)],
      [os |-> "nt", reg |-> None, bins |-> {}],
      [os |-> "nt", reg |-> None, bins |-> Installed(imagemagick_path)],
      [os |-> "nt", reg |-> RegistryDir, bins |-> {}],
      [os |-> "nt", reg |-> RegistryDir, bins |-> Installed(RegistryDir)] }

Init ==
    /\ files \in (0 - NegFiles)..MaxFiles
    /\ auto_sprite \in BOOLEAN
    /\ auto_gif = auto_sprite
    /\ \E vc \in ViewConfigs :
          /\ support_multiview = vc.support
          /\ use_multiview = vc.use
          /\ views = vc.views
    /\ \E e \in EnvConfigs :
          osName = e.os /\ registry = e.reg /\ binFiles = e.bins
    /\ outFrames = {} /\ scratchDir = FALSE /\ scratchFrames = {}
    /\ sheets = {} /\ gifFile = FALSE
    /\ pc = "idle" /\ handler = None /\ caller = None /\ toggle = FALSE
    /\ sceneArg = None /\ operatorArg = None
    /\ suffixes = <<>> /\ si = 1 /\ images = <<>> /\ per_file = 0
    /\ offset = 0 /\ index = 0 /\ destination = NoDestination
    /\ calls = <<>> /\ outcome = NoOutcome /\ reports = <<>>
    /\ opResult = NoOutcome
    /\ startFrames = {} /\ everFrames = {} /\ runs = 0

\* ------------------------------------------------------------ entry points
StartRun(who, scene, operator, next) ==
    /\ pc = "idle" /\ runs < MaxRuns
    /\ pc' = next /\ handler' = next /\ caller' = who
    /\ sceneArg' = scene /\ operatorArg' = operator
    /\ suffixes' = <<>> /\ si' = 1 /\ images' = <<>> /\ per_file' = 0
    /\ offset' = 0 /\ index' = 0 /\ destination' = NoDestination
    /\ calls' = <<>> /\ outcome' = NoOutcome /\ reports' = <<>>
    /\ opResult' = NoOutcome
    /\ startFrames' = outFrames
    /\ runs' = runs + 1

\* a render writes the frames 1..n of every view into the output directory
Render(n) ==
    /\ pc = "idle"
    /\ outFrames' = outFrames \cup RenderedFrames(n)
    /\ UNCHANGED <<scratchDir, scratchFrames, sheets, gifFile>>
    /\ UNCHANGED <<settings, env, ctl, locals, obs, hist>>

\* spritify(scene, operator) called with its arguments in declared order
CallSpritify(operator) ==
    /\ StartRun("direct", "scene", operator, "spritify")
    /\ toggle' = FALSE
    /\ UNCHANGED <<settings, env, fsys, everFrames>>

\* gifify(scene, operator) called with its arguments in declared order
CallGifify(operator) ==
    /\ StartRun("direct", "scene", operator, "gifify")
    /\ toggle' = FALSE
    /\ everFrames' = everFrames \cup outFrames
    /\ UNCHANGED <<settings, env, fsys>>

\* SpritifyOperator.execute up to the call spritify(self, context.scene)
SpritifyOperator_execute ==
    /\ StartRun("SpritifyOperator", "operator", "scene", "spritify")
    /\ toggle' = ~auto_sprite
    /\ auto_sprite' = TRUE
    /\ UNCHANGED <<files, auto_gif, support_multiview, use_multiview, views>>
    /\ UNCHANGED <<env, fsys, everFrames>>

\* GIFifyOperator.execute up to the call gifify(context.scene, self)
GIFifyOperator_execute ==
    /\ StartRun("GIFifyOperator", "scene", "operator", "gifify")
    /\ toggle' = ~auto_gif
    /\ auto_gif' = TRUE
    /\ everFrames' = everFrames \cup outFrames
    /\ UNCHANGED <<files, auto_sprite, support_multiview, use_multiview, views>>
    /\ UNCHANGED <<env, fsys>>

\* ---------------------------------------------------------------- spritify
\* the handler ends: its outcome waits for the caller's frame
Finish(o) == pc' = "done" /\ outcome' = o

\* show_message(operator, msg, ...)
show_message(operator, text) ==
    IF operator # None THEN Append(reports, <<"INFO", text>>) ELSE reports

\* lines 165-184: the auto_sprite test, removal of the old sheet, suffixes
spritify_begin ==
    /\ pc = "spritify"
    /\ IF sceneArg # "scene"
       THEN /\ Finish(Raise(AttributeError))
            /\ UNCHANGED <<sheets, suffixes>>
       ELSE IF ~auto_sprite
       THEN /\ Finish(Return(None))
            /\ UNCHANGED <<sheets, suffixes>>
       ELSE /\ sheets' = sheets \ {filepath}
            /\ suffixes' = IF support_multiview /\ use_multiview
                            THEN views ELSE <<"">>
            /\ pc' = IF suffixes' = <<>> THEN "check" ELSE "suffix"
            /\ UNCHANGED outcome
    /\ UNCHANGED <<outFrames, scratchDir, scratchFrames, gifFile>>
    /\ UNCHANGED <<handler, caller, toggle, sceneArg, operatorArg>>
    /\ UNCHANGED <<si, images, per_file, offset, index, destination>>
    /\ UNCHANGED <<calls, reports, opResult>>
    /\ UNCHANGED <<settings, env, hist>>

\* lines 185-211: frames of suffixes[si], per_file and the two guards
spritify_suffix ==
    /\ pc = "suffix"
    /\ LET imgs == walk_images(suffixes[si]) IN
       /\ images' = imgs
       /\ IF files = 0
          THEN /\ Finish(Raise(ZeroDivisionError))
               /\ UNCHANGED <<per_file, offset, index>>
          ELSE /\ per_file' = PerFile(Len(imgs), files)
               /\ offset' = 0
               /\ index' = 0
               /\ IF Len(imgs) < 1 THEN Finish(Raise(NoFramesFound))
                  ELSE IF per_file' < 1 THEN Finish(Raise(ValueError))
                  ELSE pc' = "batch" /\ UNCHANGED outcome
    /\ UNCHANGED <<handler, caller, toggle, sceneArg, operatorArg>>
    /\ UNCHANGED <<suffixes, si, destination>>
    /\ UNCHANGED <<calls, reports, opResult>>
    /\ UNCHANGED <<settings, env, fsys, hist>>

\* lines 214-286: one test of the while condition and one pass of its body
spritify_batch ==
    /\ pc = "batch"
    /\ IF offset < Len(images)
       THEN LET current_images == Slice(images, offset, per_file)
                bin_path == montage_bin_path
                montage_path == <<bin_path, "montage">>
                dest == SheetName(index, suffixes[si])
            IN IF bin_path = None
               THEN /\ Finish(Raise(TypeError))
                    /\ UNCHANGED <<sheets, destination, calls, offset,
                                   index, si>>
               ELSE IF ~isfile(montage_path)
               THEN /\ Finish(Raise(ToolNotFound))
                    /\ UNCHANGED <<sheets, destination, calls, offset,
                                   index, si>>
               ELSE \E wrote \in BOOLEAN :
                    /\ destination' = dest
                    /\ sheets' = IF wrote THEN sheets \cup {dest} ELSE sheets
                    /\ calls' = Append(calls,
                           [program |-> montage_path,
                            sources |-> current_images,
                            destination |-> dest,
                            started |-> Exec(montage_path) = "started",
                            wrote |-> wrote])
                    /\ offset' = NextOffset(offset, per_file)
                    /\ index' = index + 1
                    /\ UNCHANGED <<pc, outcome, si>>
       ELSE /\ si' = si + 1
            /\ pc' = IF si' > Len(suffixes) THEN "check" ELSE "suffix"
            /\ UNCHANGED <<sheets, destination, calls, offset, index,
                           outcome>>
    /\ UNCHANGED <<outFrames, scratchDir, scratchFrames, gifFile>>
    /\ UNCHANGED <<handler, caller, toggle, sceneArg, operatorArg>>
    /\ UNCHANGED <<suffixes, images, per_file>>
    /\ UNCHANGED <<reports, opResult>>
    /\ UNCHANGED <<settings, env, hist>>

\* lines 287-296: the existence test of the last destination
spritify_check ==
    /\ pc = "check"
    /\ IF destination = NoDestination
       THEN Finish(Raise(TypeError)) /\ UNCHANGED reports
       ELSE IF destination \in sheets
       THEN /\ reports' = show_message(operatorArg, "finished writing")
            /\ Finish(Return("message"))
       ELSE /\ reports' = show_message(operatorArg, "failed to write")
            /\ Finish(Return("error"))
    /\ UNCHANGED <<handler, caller, toggle, sceneArg, operatorArg>>
    /\ UNCHANGED <<calls, opResult>>
    /\ UNCHANGED <<settings, env, fsys, locals, hist>>

\* ------------------------------------------------------------------ gifify
\* lines 302-328: the auto_gif test, removal of the old GIF, the converter
gifify_begin ==
    /\ pc = "gifify"
    /\ IF ~auto_gif
       THEN Finish(Return(None)) /\ UNCHANGED gifFile
       ELSE /\ gifFile' = FALSE
            /\ IF ~isfile(converter_path)
               THEN Finish(Raise(ToolNotFound))
               ELSE pc' = "stage" /\ UNCHANGED outcome
    /\ UNCHANGED <<outFrames, scratchDir, scratchFrames, sheets>>
    /\ UNCHANGED <<handler, caller, toggle, sceneArg, operatorArg>>
    /\ UNCHANGED <<calls, reports, opResult>>
    /\ UNCHANGED <<settings, env, locals, hist>>

\* the entries of os.listdir(mixed_files_path) that pass the filters of
\* lines 343-355: the regular files whose name ends in ".png"
png_files == outFrames

\* lines 342-359: what the loop over the listing moves when `first` is
\* the first entry of the listing that passes the filters: the loop ends
\* with the break of line 359
moved_files(first) == {first}

\* lines 330-370: the scratch directory is removed and made again, PNG
\* files are moved into it
gifify_stage ==
    /\ pc = "stage"
    /\ scratchDir' = TRUE
    /\ IF png_files = {}
       THEN /\ scratchFrames' = {}
            /\ Finish(Raise(NoPngFiles))
            /\ UNCHANGED outFrames
       ELSE \E first \in png_files :
            \* os.listdir promises no order: any file may come first
            /\ outFrames' = outFrames \ moved_files(first)
            /\ scratchFrames' = moved_files(first)
            /\ pc' = "assemble" /\ UNCHANGED outcome
    /\ UNCHANGED <<sheets, gifFile>>
    /\ UNCHANGED <<handler, caller, toggle, sceneArg, operatorArg>>
    /\ UNCHANGED <<calls, reports, opResult>>
    /\ UNCHANGED <<settings, env, locals, hist>>

\* lines 371-403: the call of the external program and the existence test
gifify_assemble ==
    /\ pc = "assemble"
    /\ LET overwriting == IF gifFile
                          THEN show_message(operatorArg, "Overwriting")
                          ELSE reports
           program == gifify_program
           call(st, w) == [program |-> program, sources |-> <<>>,
                           destination |-> gif_destination,
                           started |-> st, wrote |-> w]
       IN IF ~scratchDir
          THEN /\ Finish(Raise(TmpDirMissing))
               /\ gifFile' = FALSE
               /\ reports' = overwriting
               /\ UNCHANGED calls
          ELSE IF Exec(program) # "started"
          THEN /\ Finish(Raise(Exec(program)))
               /\ gifFile' = FALSE
               /\ reports' = overwriting
               /\ calls' = Append(calls, call(FALSE, FALSE))
          ELSE \E wrote \in BOOLEAN :
               /\ gifFile' = wrote
               /\ calls' = Append(calls, call(TRUE, wrote))
               /\ IF wrote
                  THEN /\ reports' = Append(overwriting,
                                            <<"INFO", "finished writing">>)
                       /\ Finish(Return("message"))
                  ELSE /\ reports' = Append(overwriting,
                                            <<"INFO", "failed to create">>)
                       /\ Finish(Return("error"))
    /\ UNCHANGED <<outFrames, scratchDir, scratchFrames, sheets>>
    /\ UNCHANGED <<handler, caller, toggle, sceneArg, operatorArg>>
    /\ UNCHANGED opResult
    /\ UNCHANGED <<settings, env, locals, hist>>

\* ------------------------------------------------------ back in the caller
\* show_results(results) of both operators
show_results(results) ==
    IF results = None THEN reports
    ELSE IF results = "error" THEN Append(reports, <<"ERROR", "error">>)
    ELSE Append(reports, <<"INFO", "message">>)

\* the handler's frame is gone: its locals, and the log of its calls
DropFrame ==
    /\ suffixes' = <<>> /\ si' = 1 /\ images' = <<>> /\ per_file' = 0
    /\ offset' = 0 /\ index' = 0 /\ destination' = NoDestination
    /\ calls' = <<>>
    /\ UNCHANGED <<startFrames, everFrames, runs>>

\* a direct call ends with the handler
DirectReturn ==
    /\ pc = "done" /\ caller = "direct"
    /\ pc' = "idle"
    /\ DropFrame
    /\ UNCHANGED <<handler, caller, toggle, sceneArg, operatorArg>>
    /\ UNCHANGED <<outcome, reports, opResult>>
    /\ UNCHANGED <<settings, env, fsys>>

\* SpritifyOperator.execute from the handler's end: an exception of the
\* handler leaves execute; else lines 441-447
SpritifyOperator_resume ==
    /\ pc = "done" /\ caller = "SpritifyOperator"
    /\ pc' = "idle"
    /\ IF outcome.kind = "raise"
       THEN /\ opResult' = outcome
            /\ UNCHANGED <<reports, auto_sprite>>
       ELSE /\ reports' = show_results(outcome.val)
            /\ auto_sprite' = IF toggle THEN FALSE ELSE auto_sprite
            /\ opResult' = Return("FINISHED")
    /\ UNCHANGED <<files, auto_gif, support_multiview, use_multiview, views>>
    /\ UNCHANGED <<handler, caller, toggle, sceneArg, operatorArg>>
    /\ DropFrame
    /\ UNCHANGED outcome
    /\ UNCHANGED <<env, fsys>>

\* GIFifyOperator.execute from the handler's end: an exception of the
\* handler leaves execute; else lines 497-500, where the name "results" is
\* read and is bound nowhere
GIFifyOperator_resume ==
    /\ pc = "done" /\ caller = "GIFifyOperator"
    /\ pc' = "idle"
    /\ IF outcome.kind = "raise"
       THEN /\ opResult' = outcome
            /\ UNCHANGED reports
       ELSE /\ reports' = show_results(outcome.val)
            /\ opResult' = Raise(NameError)
    /\ UNCHANGED <<handler, caller, toggle, sceneArg, operatorArg>>
    /\ DropFrame
    /\ UNCHANGED outcome
    /\ UNCHANGED <<settings, env, fsys>>

\* -------------------------------------------------------------------- Next
OperatorArgs == {None, "operator"}

Next ==
    \/ \E n \in 1..MaxFrames : Render(n)
    \/ \E o \in OperatorArgs : CallSpritify(o)
    \/ \E o \in OperatorArgs : CallGifify(o)
    \/ SpritifyOperator_execute
    \/ GIFifyOperator_execute
    \/ spritify_begin
    \/ spritify_suffix
    \/ spritify_batch
    \/ spritify_check
    \/ gifify_begin
    \/ gifify_stage
    \/ gifify_assemble
    \/ DirectReturn
    \/ SpritifyOperator_resume
    \/ GIFifyOperator_resume

Spec == Init /\ [][Next]_vars

\* Renders and invocations of spritify(scene, operator) alone: the
\* specification of the claims about the partition loop.
NextSpritifyRun ==
    \/ \E n \in 1..MaxFrames : Render(n)
    \/ \E o \in OperatorArgs : CallSpritify(o)
    \/ spritify_begin
    \/ spritify_suffix
    \/ spritify_batch
    \/ spritify_check
    \/ DirectReturn

SpritifyRun == Init /\ [][NextSpritifyRun]_vars

\* ================================================================== claims
\* the calls made for one view suffix, and the frame lists passed to them
SuffixCalls(suffix) ==
    SelectSeq(calls, LAMBDA c : c.destination.suffix = suffix)

Batches(suffix) ==
    [i \in 1..Len(SuffixCalls(suffix)) |-> SuffixCalls(suffix)[i].sources]

\* spritify is in its partition loop for suffixes[si]
InLoop == pc = "batch"

\* the loop for suffixes[si] has consumed every frame
LoopFinished == InLoop /\ offset >= Len(images)

CurrentBatches == Batches(suffixes[si])

\* ceil(n / f) for f >= 1, written out
CeilOf(n, f) == (n + f - 1) \div f

\* C1: in the partition loop the frame lists passed to the montage
\* invocations of the current suffix, concatenated in invocation order, are
\* the frames collected so far in their order, and once the loop has
\* consumed every frame they are the collected frame list: every frame is
\* in exactly one batch, once.
C1_BatchesReconstructFrames ==
    InLoop =>
        /\ Flatten(CurrentBatches)
             = SubSeq(images, 1, Min(offset, Len(images)))
        /\ LoopFinished =>
             /\ Flatten(CurrentBatches) = images
             /\ \A f \in outFrames \cup scratchFrames :
                  endswith(f, suffixes[si]) =>
                      Cardinality({<<i, j>> \in
                          (DOMAIN CurrentBatches) \X (1..Len(images)) :
                              /\ j \in DOMAIN CurrentBatches[i]
                              /\ CurrentBatches[i][j] = f}) = 1

\* C1 witness: a finished loop of two batches, the last one smaller, for
\* the second view suffix
C1_Witness ==
    /\ LoopFinished /\ si = 2
    /\ Len(images) = 3 /\ files = 2
    /\ Len(CurrentBatches) = 2
    /\ Len(CurrentBatches[2]) = 1

C3_BatchSizes ==
    (InLoop /\ files >= 1 /\ Len(images) >= files) =>
        \A i \in DOMAIN CurrentBatches :
            /\ Len(CurrentBatches[i]) >= 1
            /\ Len(CurrentBatches[i]) <= CeilOf(Len(images), files)
            /\ (i < Len(CurrentBatches) \/ ~LoopFinished)
                 => Len(CurrentBatches[i]) = CeilOf(Len(images), files)

\* C3 witness: three frames in two files make batches of two and one
C3_Witness ==
    /\ LoopFinished
    /\ Len(images) = 3 /\ files = 2
    /\ Len(CurrentBatches) = 2
    /\ Len(CurrentBatches[1]) = 2 /\ Len(CurrentBatches[2]) = 1

\* ---------------------------------------------------- claims on the whole
\* a handler has ended and its caller has not resumed
HandlerDone(h) == pc = "done" /\ handler = h

\* the artifact a call was to write exists
Exists(dest) == IF dest = gif_destination THEN gifFile ELSE dest \in sheets

FailureResult == outcome = Return("error")

\* C4: once spritify or gifify has launched its external process(es) and an
\* expected output artifact is absent, the handler returns a failure result
\* and raises nothing; for spritify this covers every batch's output file of
\* every view suffix.
C4_MissingArtifactIsFailure ==
    ( /\ pc = "done" /\ calls # <<>>
      /\ \A i \in DOMAIN calls : calls[i].started
      /\ \E i \in DOMAIN calls : ~Exists(calls[i].destination) )
      => FailureResult

\* C5: when gifify reaches GIF assembly the scratch directory holds exactly
\* the PNG frames that were in the render output directory at the start of
\* the run.
C5_ScratchHoldsAllFrames ==
    pc = "assemble" => scratchDir /\ scratchFrames = startFrames

\* C6: with auto_gif on, the converter binary present and a PNG frame found,
\* gifify launches exactly one external process, and its program is the
\* resolved converter binary, its destination the GIF.
C6_GifAssemblyRunsConverter ==
    ( /\ HandlerDone("gifify") /\ auto_gif
      /\ isfile(converter_path) /\ startFrames # {} )
      => /\ Len(calls) = 1
         /\ calls[1].started
         /\ calls[1].program = converter_path
         /\ calls[1].destination = gif_destination

\* frame collection for suffixes[si] has run and found nothing
CollectedNothing ==
    /\ HandlerDone("spritify")
    /\ suffixes # <<>> /\ si <= Len(suffixes)
    /\ images = <<>>

\* C7: when frame collection for a view suffix yields no frame, spritify
\* fails with the no-frames-found error, whatever the file count, and before
\* any external process is launched.
C7_NoFramesIsNoFramesFound ==
    CollectedNothing => outcome = Raise(NoFramesFound) /\ calls = <<>>

\* spritify has ended in the body of its loop, where the tool is resolved
EndedInLoopBody ==
    /\ HandlerDone("spritify")
    /\ suffixes # <<>> /\ si <= Len(suffixes)
    /\ images # <<>> /\ files # 0 /\ per_file >= 1

MontageIsFile ==
    montage_bin_path # None /\ isfile(<<montage_bin_path, "montage">>)

\* C8: whenever the resolved tool path is no existing file, spritify and
\* gifify fail with the tool-not-found error and launch no process, on the
\* configured-directory branch and on the registry branch, the lookup
\* returning no path included.
C8_MissingToolIsToolNotFound ==
    /\ (EndedInLoopBody /\ ~MontageIsFile)
         => outcome = Raise(ToolNotFound) /\ calls = <<>>
    /\ (HandlerDone("gifify") /\ auto_gif /\ ~isfile(converter_path))
         => outcome = Raise(ToolNotFound) /\ calls = <<>>

TypedFailures ==
    {NoFramesFound, ToolNotFound, ValueError, TmpDirMissing, NoPngFiles}

\* execute of an operator has ended
ExecuteEnded ==
    /\ pc = "idle"
    /\ caller \in {"SpritifyOperator", "GIFifyOperator"}
    /\ opResult # NoOutcome

\* C9: every execution of either operator runs its handler on the scene and
\* ends with the handler's result reported and {'FINISHED'} returned, or
\* with one of the typed failures.
C9_ExecuteReportsOrTypedFailure ==
    ExecuteEnded =>
        /\ sceneArg = "scene"
        /\ \/ /\ opResult = Return("FINISHED")
              /\ outcome.kind = "return"
              /\ outcome.val = "error" => <<"ERROR", "error">> \in
                                            {reports[i] : i \in DOMAIN reports}
              /\ outcome.val = "message" => <<"INFO", "message">> \in
                                            {reports[i] : i \in DOMAIN reports}
           \/ /\ opResult.kind = "raise"
              /\ opResult.val \in TypedFailures

\* C10: after any sequence of gifify runs and renders, every PNG frame that
\* was in the render output directory before a run is still in the output
\* directory or in the scratch directory.
C10_FramesSurvive ==
    pc = "idle" => everFrames \subseteq (outFrames \cup scratchFrames)

\* the file `dest` was written by a montage invocation of the current run
WrittenThisRun(dest) ==
    \E i \in DOMAIN calls :
        /\ calls[i].destination = dest
        /\ calls[i].started /\ calls[i].wrote

\* C11: a success result of spritify implies that the destination it
\* reports was written by a montage invocation of the same run, for every
\* file count and view suffix: a file left by an earlier run never makes a
\* run whose montage wrote nothing report "finished writing".
C11_SuccessMeansWrittenThisRun ==
    (HandlerDone("spritify") /\ outcome = Return("message"))
        => WrittenThisRun(destination)

\* the value the operator's setting had when execute began: execute sets
\* toggle exactly when it found the setting False (lines 437-440, 493-496)
SettingBefore == ~toggle

\* C12: an execution of SpritifyOperator or GIFifyOperator leaves auto_sprite
\* and auto_gif at the values they had before it, on every path out of
\* execute, a raising handler or execute included: a setting that was False
\* is True only while the handler runs.
C12_ExecuteRestoresSettings ==
    ExecuteEnded =>
        /\ caller = "SpritifyOperator" => auto_sprite = SettingBefore
        /\ caller = "GIFifyOperator" => auto_gif = SettingBefore

====
